---- MODULE Spec2Model ----
(***************************************************************************)
(* A model of vanhees2015.py: the resampler `stimuli` and the streaming    *)
(* sleep/wake classifier `vanhees2015_modified`.                           *)
(*                                                                         *)
(* Number representation.  The program computes in IEEE doubles; the model *)
(* computes in integers:                                                   *)
(*   - an acceleration is an integer count of 1/10000 g (see G);           *)
(*   - an angle is an integer count of arc minutes (see Deg);              *)
(*   - a timestamp is an integer count of ticks; for the resampler a tick  *)
(*     is 0.05 s, so that TicksPerSample = 2 ticks make one sample period  *)
(*     1/fs = 0.1 s;                                                       *)
(*   - a quotient that has no integer value is rounded to the nearest      *)
(*     integer (RoundDiv), or kept as an exact fraction (Rat) where the    *)
(*     resampler's grid needs it;                                          *)
(*   - arctan is evaluated on the tangents of TanTable;                    *)
(*   - where the program turns a double into an integer, the floor of line *)
(*     33, the results of the double arithmetic are tabulated (grid_len).  *)
(* Where a claim is about the rounding of the doubles themselves, ema is   *)
(* also modelled in binary floating point, round to nearest even, with a   *)
(* significand of MantissaBits bits (ema_float).                           *)
(* A Python None is the empty sequence <<>> and a set value v is <<v>>.    *)
(***************************************************************************)
EXTENDS Integers, Sequences, FiniteSets, TLC

VARIABLES
    \* vanhees2015_modified
    pc,                     \* "loop": in the for loop; "done": returned
    stim,                   \* the rows stim[0..i-1] read so far
    i,                      \* the loop index: the next row to read
    accel_avgs,
    arm_angle_hist,
    arm_angle_mean_d,
    arm_angle_change_hist,
    ret,
    dbg,
    t_first,                \* timestamp of row 0
    t_step,                 \* timestamp difference of consecutive rows
    \* stimuli
    stimuli_pc,             \* "idle", "call", "returned" or "raised"
    accel,                  \* rows of <subject>_acceleration.txt
    truth,                  \* rows of <subject>_labeled_sleep.txt
    out,                    \* what stimuli returned or raised
    \* ema
    ema_in,                 \* the arguments [x, y, eta] of a call of ema
    ema_out                 \* None, or <<the value returned>>

vars == <<pc, stim, i, accel_avgs, arm_angle_hist, arm_angle_mean_d,
          arm_angle_change_hist, ret, dbg, t_first, t_step,
          stimuli_pc, accel, truth, out, ema_in, ema_out>>

classifier_vars == <<pc, stim, i, accel_avgs, arm_angle_hist, arm_angle_mean_d,
                     arm_angle_change_hist, ret, dbg, t_first, t_step>>

stimuli_vars == <<stimuli_pc, accel, truth, out>>

ema_vars == <<ema_in, ema_out>>

---------------------------------------------------------------------------
(* Bounds.  fs, seconds_per_update and classification_hist_size are the    *)
(* configuration values of vanhees2015_modified, lines 89, 93 and 98 (10,  *)
(* 5 and 60 in the source), scaled down so that whole hysteresis cycles    *)
(* are enumerated.                                                         *)

fs == 1

seconds_per_update == 2

classification_hist_size == 2

\* the longest input stream of the classifier
MaxSamples == 13

\* the raw streams' timestamps range up to MaxTime ticks
MaxTime == 6

\* the longest raw accelerometer stream from t = 0 on, and the longest label
\* stream
MaxAccelLen == 2

MaxTruthLen == 2

\* the significand of a floating-point number, in bits (53 in the doubles of
\* the source)
MantissaBits == 3

\* the arguments of ema range over the floating-point numbers of magnitude
\* up to MaxFloat units
MaxFloat == 16

---------------------------------------------------------------------------
(* Program constants                                                       *)

\* stimuli: 1/fs with fs = 10, in ticks of 0.05 s
TicksPerSample == 2

\* eta = 0.005, as the fraction 5/1000
eta == <<5, 1000>>

\* arm_angle_threshold = 5, in degrees
arm_angle_threshold == 5

None == <<>>

\* a float the program would compute as nan
NaN == "nan"

---------------------------------------------------------------------------
(* Arithmetic                                                              *)

\* x degrees, in arc minutes
Deg(x) == 60 * x

\* x g, in units of 1/10000 g
G(x) == 10000 * x

\* a / b for b > 0, rounded to the nearest integer
RoundDiv(a, b) == (2 * a + b) \div (2 * b)

abs(x) == IF x < 0 THEN 0 - x ELSE x

RECURSIVE Sum(_)
Sum(s) == IF s = <<>> THEN 0 ELSE Head(s) + Sum(Tail(s))

\* np.mean of a non-empty array
np_mean(a) == RoundDiv(Sum(a), Len(a))

\* np.zeros(len)
np_zeros(len) == [k \in 1..len |-> 0]

\* the variant of shift_in without the shift a[1:] = a[:-1]
shift_in_no_shift(a, v) == <<v>> \o Tail(a)

\* a[1:] = a[:-1]; a[0] = v
shift_in(a, v) == <<v>> \o SubSeq(a, 1, Len(a) - 1)

---------------------------------------------------------------------------
(* ema, ang                                                                *)

\* y + eta*(x - y), eta given as <<numerator, denominator>>
ema(x, y, eta_) == y + RoundDiv(eta_[1] * (x - y), eta_[2])

\* <<p, q, a>>: arctan(p/q) is a degrees, to the nearest degree
TanTable == << <<1, 4, 14>>, <<1, 2, 27>>, <<3, 4, 37>>, <<1, 1, 45>>,
               <<4, 3, 53>>, <<2, 1, 63>>, <<4, 1, 76>> >>

\* arctan(z / sqrt(r2)) in arc minutes for z >= 0, r2 > 0: the angle of the
\* greatest tabulated tangent p/q <= z/sqrt(r2), that is q*q*z*z >= p*p*r2
arctan_deg(z, r2) ==
    LET hit == {k \in 1..Len(TanTable) :
                  TanTable[k][2] * TanTable[k][2] * z * z
                      >= TanTable[k][1] * TanTable[k][1] * r2}
    IN  IF hit = {} THEN 0
        ELSE Deg(TanTable[CHOOSE k \in hit : \A m \in hit : m <= k][3])

\* np.arctan(accel[2] / np.sqrt(accel[0]**2 + accel[1]**2)) * 180/np.pi
\* (x/0 is +-inf and arctan of it +-90 degrees; 0/0 is nan)
ang(a) ==
    LET r2 == a[1] * a[1] + a[2] * a[2]
        z  == a[3]
    IN  IF r2 = 0
        THEN (IF z = 0 THEN NaN ELSE IF z < 0 THEN 0 - Deg(90) ELSE Deg(90))
        ELSE IF z < 0 THEN 0 - arctan_deg(0 - z, r2) ELSE arctan_deg(z, r2)

---------------------------------------------------------------------------
(* vanhees2015_modified                                                    *)

\* fs*seconds_per_update: the samples of one window
W == fs * seconds_per_update

\* the variant of ret0 that seeds the output as asleep
ret0_asleep == << [t |-> 0, state |-> 1] >>

\* ret = [[0, 0]]
ret0 == << [t |-> 0, state |-> 0] >>

\* the variant of is_boundary that closes a window on its last sample
is_boundary_last(k) == (k + 1) % (fs * seconds_per_update) = 0

\* the variant of is_boundary that checks every second: i % fs == 0
is_boundary_each_second(k) == k % fs = 0

\* i % (fs*seconds_per_update) == 0
is_boundary(k) == k % (fs * seconds_per_update) = 0

\* arm_angle_mean_d is not None
is_set(d) == d # None

\* the variant of classify that looks at the newest change only
classify_newest_only(change_hist) ==
    IF change_hist[1] > Deg(arm_angle_threshold) THEN 0 ELSE 1

\* the variant of classify that counts a change equal to the threshold
classify_at_or_above(change_hist) ==
    IF \E k \in 1..Len(change_hist) : change_hist[k] >= Deg(arm_angle_threshold)
    THEN 0 ELSE 1

\* new_state of lines 144-147
classify(change_hist) ==
    IF \E k \in 1..Len(change_hist) : change_hist[k] > Deg(arm_angle_threshold)
    THEN 0 ELSE 1

\* the variant of event of the commented-out line 150: the start of the window
event_at_window_start(row, new_state) ==
    [t |-> row.t - seconds_per_update * fs, state |-> new_state]

\* the variant of event that reads the timestamp of row 0: stim[0, 0]
event_first_row(row, new_state) == [t |-> t_first, state |-> new_state]

\* [stim[i, 0], new_state]
event(row, new_state) == [t |-> row.t, state |-> new_state]

\* the postures of the wrist the input streams are made of: 1 g on the z axis
\* (arm angle 90 degrees) and 1 g on the y axis (arm angle 0)
Accels == { <<0, 0, G(1)>>, <<0, G(1), 0>> }

\* the streams' clocks: row k carries t_first + k*t_step
StartTimes == {0 - W, 0}

TimeSteps == {0 - 1, 1}

Init0 ==
    /\ pc = "loop"
    /\ stim = <<>>
    /\ i = 0
    /\ accel_avgs = np_zeros(3)
    /\ arm_angle_hist = np_zeros(fs * seconds_per_update)
    /\ arm_angle_mean_d = None
    /\ arm_angle_change_hist = np_zeros(classification_hist_size)
    /\ ret = ret0
    /\ dbg = <<>>

Init ==
    /\ Init0
    /\ t_first \in StartTimes
    /\ t_step \in TimeSteps
    /\ stimuli_pc = "idle"
    /\ accel = <<>>
    /\ truth = <<>>
    /\ out = None
    /\ ema_in = None
    /\ ema_out = None

\* one iteration of the for loop, lines 111-154, on the row stim[i]
Iterate(row) ==
    LET avgs == [k \in 1..3 |-> ema(row.accel[k], accel_avgs[k], eta)]
        hist == shift_in(arm_angle_hist, ang(avgs))
        arm_angle_mean == np_mean(hist)
        emit == is_boundary(i) /\ is_set(arm_angle_mean_d)
        arm_angle_change == abs(arm_angle_mean - arm_angle_mean_d[1])
        change_hist == IF emit THEN shift_in(arm_angle_change_hist, arm_angle_change)
                       ELSE arm_angle_change_hist
    IN  /\ stim' = Append(stim, row)
        /\ i' = i + 1
        /\ accel_avgs' = avgs
        /\ arm_angle_hist' = hist
        /\ arm_angle_change_hist' = change_hist
        /\ ret' = IF emit
                  THEN Append(ret, event(row, classify(change_hist)))
                  ELSE ret
        /\ arm_angle_mean_d' = IF is_boundary(i) THEN <<arm_angle_mean>>
                               ELSE arm_angle_mean_d
        /\ dbg' = Append(dbg, [t |-> row.t, accel_avgs |-> avgs, angle |-> hist[1],
                               mean |-> IF is_boundary(i) THEN <<arm_angle_mean>> ELSE None,
                               change |-> IF emit THEN <<arm_angle_change>> ELSE None])

Step ==
    /\ pc = "loop"
    /\ i < MaxSamples
    /\ \E a \in Accels : Iterate([t |-> t_first + i * t_step, accel |-> a])
    /\ UNCHANGED <<pc, t_first, t_step>>
    /\ UNCHANGED stimuli_vars
    /\ UNCHANGED ema_vars

\* the loop ends after the last row: return np.array(ret), dbg
Return ==
    /\ pc = "loop"
    /\ pc' = "done"
    /\ UNCHANGED <<stim, i, accel_avgs, arm_angle_hist, arm_angle_mean_d,
                   arm_angle_change_hist, ret, dbg, t_first, t_step>>
    /\ UNCHANGED stimuli_vars
    /\ UNCHANGED ema_vars

Next == Step \/ Return

Spec == Init /\ [][Next]_vars

---------------------------------------------------------------------------
(* stimuli                                                                 *)

\* the fraction n/d, d > 0
Rat(n, d) == [num |-> n, den |-> d]

RatLess(a, b) == a.num * b.den < b.num * a.den

RatEq(a, b) == a.num * b.den = b.num * a.den

\* np.linspace(start, stop, num): num values from start to stop inclusive
np_linspace(start, stop, num) ==
    IF num = 1 THEN << Rat(start, 1) >>
    ELSE [k \in 1..num |-> Rat(start * (num - 1) + (k - 1) * (stop - start), num - 1)]

\* np.interp(x, xp, fp) for increasing xp: piecewise linear, clamped to
\* fp[0] below xp[0] and to fp[-1] above xp[-1]
np_interp(x, xp, fp) ==
    IF ~ RatLess(Rat(xp[1], 1), x) THEN Rat(fp[1], 1)
    ELSE IF ~ RatLess(x, Rat(xp[Len(xp)], 1)) THEN Rat(fp[Len(fp)], 1)
    ELSE LET j == CHOOSE k \in 1..(Len(xp) - 1) :
                      /\ ~ RatLess(x, Rat(xp[k], 1))
                      /\ RatLess(x, Rat(xp[k + 1], 1))
             d == x.den * (xp[j + 1] - xp[j])
         IN  Rat(fp[j] * d + (fp[j + 1] - fp[j]) * (x.num - xp[j] * x.den), d)

\* the variant of started without the trim: every row is kept
started_all(row) == TRUE

\* accel[:, 0] >= 0
started(row) == row.t >= 0

\* Lines 32-33 in IEEE doubles, for kept timestamps a <= b that are the
\* decimal multiples 0.00, 0.05, ..., 0.45 of one tick (0.05 s) and fs = 10.
\* SubtractionShort: the double t[-1] - t[0] is below the decimal difference,
\* which is a whole number of sample periods (0.15 - 0.05 is
\* 0.09999999999999999).
SubtractionShort == { <<1, 3>>, <<2, 6>>, <<3, 7>>, <<4, 6>>, <<5, 7>> }

\* DivisionShort: delta_t is the double nearest the decimal difference and
\* delta_t / (1/fs) is below the whole number that delta_t * fs is
\* (0.3 / 0.1 is 2.9999999999999996, 0.3 * 10 is 3.0).
DivisionShort == { <<0, 6>>, <<1, 7>> }

\* int(np.floor(delta_t / (1/fs))) for delta_t = t[-1] - t[0], t[0] = a and
\* t[-1] = b ticks: the exact floor, or one less where the doubles fall short
grid_len(a, b) ==
    IF <<a, b>> \in SubtractionShort \cup DivisionShort
    THEN (b - a) \div TicksPerSample - 1
    ELSE (b - a) \div TicksPerSample

\* the variant of before that takes the label samples up to x
up_to(truth_, x) ==
    SelectSeq(truth_, LAMBDA row : ~ RatLess(x, Rat(row.t, 1)))

\* truth[truth[:, 0] < x]
before(truth_, x) ==
    SelectSeq(truth_, LAMBDA row : RatLess(Rat(row.t, 1), x))

\* the variant of store_first_fails in which truth_interp has room for one label
store_first_fails_without_labels(truth_, N) == truth_ = <<>>

\* truth_interp[0] = truth[0, 1] raises IndexError: no label row, or no slot
store_first_fails(truth_, N) == truth_ = <<>> \/ N = 0

Raised(error, line) == [raised |-> error, line |-> line]

Returned(rows) == [ret |-> rows]

stimuli(accel_, truth_) ==
    LET acc == SelectSeq(accel_, started)
    IN  IF acc = <<>> THEN Raised("IndexError", 32)
        ELSE
        LET t  == [k \in 1..Len(acc) |-> acc[k].t]
            N  == grid_len(t[1], t[Len(t)])
            ti == np_linspace(t[1], t[1] + N * TicksPerSample, N)
            axis(c) == [k \in 1..Len(acc) |-> acc[k].a[c]]
        IN  IF N < 0 THEN Raised("ValueError", 34)
            ELSE IF store_first_fails(truth_, N) THEN Raised("IndexError", 47)
            ELSE IF \E k \in 2..N : before(truth_, ti[k]) = <<>>
                 THEN Raised("IndexError", 50)
            ELSE Returned([k \in 1..N |->
                    [t  |-> ti[k],
                     ax |-> np_interp(ti[k], t, axis(1)),
                     ay |-> np_interp(ti[k], t, axis(2)),
                     az |-> np_interp(ti[k], t, axis(3)),
                     label |-> IF k = 1 THEN truth_[1].label
                               ELSE LET sel == before(truth_, ti[k])
                                    IN  sel[Len(sel)].label]])

\* the raw streams: rows in file order.  The timestamps of the session
\* (the label stream starts at t = 0) in ticks
Times == 0..MaxTime

\* accelerations in g
RawAccels == { <<0, 0, 1>>, <<1, 0, 0>> }

\* sleep stage codes
Labels == {0, 2}

SeqsUpTo(S, n) == UNION {[1..m -> S] : m \in 0..n}

\* the rows recorded before the session started: none, or one row with an
\* acceleration of its own
EarlyRows == { <<>>, << [t |-> 0 - 1, a |-> <<0, 1, 0>>] >> }

\* accelerometer rows, strictly increasing in time: the early rows, then up
\* to MaxAccelLen rows from t = 0 on
AccelFiles ==
    {e \o f : e \in EarlyRows,
              f \in {g \in SeqsUpTo([t : Times, a : RawAccels], MaxAccelLen) :
                        \A k \in 1..(Len(g) - 1) : g[k].t < g[k + 1].t}}

\* label rows, sorted by time
TruthFiles ==
    {f \in SeqsUpTo([t : Times, label : Labels], MaxTruthLen) :
        \A k \in 1..(Len(f) - 1) : f[k].t <= f[k + 1].t}

InitStimuli ==
    /\ Init0
    /\ t_first = 0
    /\ t_step = 1
    /\ stimuli_pc = "call"
    /\ accel \in AccelFiles
    /\ truth \in TruthFiles
    /\ out = None
    /\ ema_in = None
    /\ ema_out = None

\* stim = stimuli(args.subject, args.data_dir)
Stimuli ==
    /\ stimuli_pc = "call"
    /\ out' = stimuli(accel, truth)
    /\ stimuli_pc' = IF "ret" \in DOMAIN out' THEN "returned" ELSE "raised"
    /\ UNCHANGED <<accel, truth>>
    /\ UNCHANGED classifier_vars
    /\ UNCHANGED ema_vars

NextStimuli == Stimuli

SpecStimuli == InitStimuli /\ [][NextStimuli]_vars

---------------------------------------------------------------------------
(* ema in floating point                                                   *)
(*                                                                         *)
(* A floating-point number is an integer count of units, one unit being    *)
(* the spacing of the format's smallest numbers: every integer below       *)
(* 2^MantissaBits units is a number of the format, and from there on the   *)
(* spacing doubles with every power of two.  Each operation returns the    *)
(* number of the format nearest the exact result, ties to the even         *)
(* significand.                                                            *)

RECURSIVE Pow2(_)
Pow2(n) == IF n = 0 THEN 1 ELSE 2 * Pow2(n - 1)

\* the spacing of the format's numbers at magnitude m >= 0
RECURSIVE Spacing(_)
Spacing(m) == IF m < Pow2(MantissaBits) THEN 1 ELSE 2 * Spacing(m \div 2)

\* the number of the format nearest n/d, for n >= 0 and d > 0
round_half_even(n, d) ==
    LET u    == Spacing(n \div d)
        q    == n \div (d * u)
        rem2 == 2 * (n - q * d * u)
    IN  IF rem2 < d * u THEN q * u
        ELSE IF rem2 > d * u THEN (q + 1) * u
        ELSE IF q % 2 = 0 THEN q * u ELSE (q + 1) * u

\* the result of an operation whose exact value is n/d, d > 0
float_round(n, d) ==
    IF n < 0 THEN 0 - round_half_even(0 - n, d) ELSE round_half_even(n, d)

\* the variant of ema_float with the arguments of the subtraction swapped
ema_float_swapped(x, y, eta_) ==
    LET diff == float_round(y - x, 1)
        prod == float_round(eta_[1] * diff, eta_[2])
    IN  float_round(y + prod, 1)

\* y + eta*(x - y), eta given as <<numerator, denominator>>: the
\* subtraction, the product and the sum are rounded one after the other
ema_float(x, y, eta_) ==
    LET diff == float_round(x - y, 1)
        prod == float_round(eta_[1] * diff, eta_[2])
    IN  float_round(y + prod, 1)

\* the numbers of the format of magnitude up to MaxFloat
Floats == {v \in (0 - MaxFloat)..MaxFloat : float_round(v, 1) = v}

\* decay factors: 0, the eta of line 90, 1/2 and 1
Etas == { <<0, 1>>, eta, <<1, 2>>, <<1, 1>> }

InitEma ==
    /\ Init0
    /\ t_first = 0
    /\ t_step = 1
    /\ stimuli_pc = "idle"
    /\ accel = <<>>
    /\ truth = <<>>
    /\ out = None
    /\ ema_in \in [x : Floats, y : Floats, eta : Etas]
    /\ ema_out = None

\* a call ema(x, y, eta), as in accel_avgs = ema(stim[i, 1:4], accel_avgs, eta)
\* on one axis
Ema ==
    /\ ema_in # None
    /\ ema_out = None
    /\ ema_out' = << ema_float(ema_in.x, ema_in.y, ema_in.eta) >>
    /\ UNCHANGED ema_in
    /\ UNCHANGED classifier_vars
    /\ UNCHANGED stimuli_vars

NextEma == Ema

SpecEma == InitEma /\ [][NextEma]_vars

---------------------------------------------------------------------------
(* Properties of vanhees2015_modified                                      *)

H == classification_hist_size

\* the events emitted so far, the seed not counted
NEvents == Len(ret) - 1

\* the change computed for the k-th event, at sample index k*W
ChangeOf(k) == dbg[k * W + 1].change[1]

StateOf(k) == ret[k + 1].state

Below(c) == c < Deg(arm_angle_threshold)

Above(c) == c > Deg(arm_angle_threshold)

\* C1: with the seed counted as the event of sample index 0, the non-seed
\* events are produced exactly at the sample indices W, 2W, 3W, ... read so
\* far, one each and at no other index, and a returned stream of n >= W
\* samples holds 1 + floor((n-1)/W) events.
WindowingCadence ==
    /\ \A k \in 1..Len(dbg) :
          (dbg[k].change # None) <=> ((k - 1) % W = 0 /\ k - 1 >= W)
    /\ NEvents = Cardinality({k \in 1..Len(dbg) : dbg[k].change # None})
    /\ \A k \in 1..NEvents : ret[k + 1].t = stim[k * W + 1].t
    /\ (pc = "done" /\ Len(stim) >= W) =>
          /\ NEvents * W <= Len(stim) - 1
          /\ Len(stim) - 1 < (NEvents + 1) * W

CadenceWitness ==
    /\ pc = "done"
    /\ Len(stim) = 3 * W
    /\ NEvents = 2

\* C2: once H consecutive changes are below the threshold the event is
\* ASLEEP; if the next change is above it, the event of that window is AWAKE,
\* the events of the following H-1 windows with changes below the threshold
\* are AWAKE, and the event of the H-th such window is ASLEEP.
HysteresisSticks ==
    \A k \in H..NEvents :
        (\A j \in (k - H + 1)..k : Below(ChangeOf(j))) =>
            /\ StateOf(k) = 1
            /\ (k + 1 <= NEvents /\ Above(ChangeOf(k + 1))) =>
                  /\ StateOf(k + 1) = 0
                  /\ \A j \in 1..H :
                        (/\ k + 1 + j <= NEvents
                         /\ \A l \in 1..j : Below(ChangeOf(k + 1 + l)))
                        => StateOf(k + 1 + j) = (IF j < H THEN 0 ELSE 1)

HysteresisWitness ==
    \E k \in H..NEvents :
        /\ k + 1 + H <= NEvents
        /\ \A j \in (k - H + 1)..k : Below(ChangeOf(j))
        /\ Above(ChangeOf(k + 1))
        /\ \A l \in 1..H : Below(ChangeOf(k + 1 + l))
        /\ StateOf(k) = 1
        /\ StateOf(k + 1) = 0
        /\ StateOf(k + 1 + H) = 1

\* C3: after an event, change_history holds the new change
\* abs(window_mean - prev_window_mean) in front of the older changes, the
\* oldest evicted, and the event's state is 0 if and only if an entry is
\* strictly greater than the threshold, and 1 otherwise.
ClassificationRule ==
    NEvents >= 1 =>
        LET b == NEvents * W
        IN  /\ Len(arm_angle_change_hist) = H
            /\ arm_angle_change_hist[1] = abs(dbg[b + 1].mean[1] - dbg[b - W + 1].mean[1])
            /\ \A j \in 1..H :
                  arm_angle_change_hist[j] =
                      (IF NEvents - j + 1 >= 1 THEN ChangeOf(NEvents - j + 1) ELSE 0)
            /\ StateOf(NEvents) \in {0, 1}
            /\ StateOf(NEvents) = 0 <=>
                  \E j \in 1..H : arm_angle_change_hist[j] > Deg(arm_angle_threshold)

\* an event whose newest change equals the threshold and which is asleep
ClassificationWitness ==
    /\ NEvents > H
    /\ arm_angle_change_hist[1] = Deg(arm_angle_threshold)
    /\ StateOf(NEvents) = 1

\* C4: the first element of the event sequence is {t: 0, state: 0}, for the
\* empty stream too, and stays so after every sample.
SeedFirst ==
    /\ Len(ret) >= 1
    /\ ret[1] = [t |-> 0, state |-> 0]

SeedWitness ==
    /\ pc = "done"
    /\ NEvents >= 2
    /\ ret[2].t # 0

\* C5: every step leaves the events emitted before it as they are and
\* appends at most one, which carries the timestamp of the sample that
\* completed the window.
DecisionsFinal ==
    [][/\ Len(ret') >= Len(ret)
       /\ SubSeq(ret', 1, Len(ret)) = ret
       /\ Len(ret') <= Len(ret) + 1
       /\ Len(ret') = Len(ret) + 1 =>
             /\ ret'[Len(ret')].t = stim'[Len(stim')].t
             /\ (Len(stim') - 1) % W = 0]_vars

DecisionsWitness ==
    /\ NEvents >= 2
    /\ ret[Len(ret)].t = stim[Len(stim)].t
    /\ ret[Len(ret)].t # ret[Len(ret) - 1].t

---------------------------------------------------------------------------
(* Properties of stimuli                                                   *)

\* the accelerometer rows kept by the t >= 0 trim
Kept == SelectSeq(accel, LAMBDA row : row.t >= 0)

KeptFirst == Kept[1].t

KeptLast == Kept[Len(Kept)].t

\* C6: in a returned trace the label of every grid point after the first is
\* the label of a label row with the greatest timestamp strictly less than
\* the grid timestamp, the label of the first grid point is the label of the
\* first label row, and every output label is an input label.
LabelHold ==
    stimuli_pc = "returned" =>
        /\ out.ret[1].label = truth[1].label
        /\ \A k \in 2..Len(out.ret) :
              \E j \in 1..Len(truth) :
                  /\ RatLess(Rat(truth[j].t, 1), out.ret[k].t)
                  /\ out.ret[k].label = truth[j].label
                  /\ \A m \in 1..Len(truth) :
                        RatLess(Rat(truth[m].t, 1), out.ret[k].t)
                            => truth[m].t <= truth[j].t
        /\ \A k \in 1..Len(out.ret) :
              \E j \in 1..Len(truth) : out.ret[k].label = truth[j].label

\* a label row on the second grid timestamp, not used for it
LabelHoldWitness ==
    /\ stimuli_pc = "returned"
    /\ Len(out.ret) >= 2
    /\ Len(truth) = 2
    /\ RatEq(Rat(truth[2].t, 1), out.ret[2].t)
    /\ truth[2].label # truth[1].label
    /\ out.ret[2].label = truth[1].label

\* floor((t_last - t_first) * fs) in doubles, t_first = a and t_last = b
\* ticks: the product is short of the whole number only where the
\* difference is
FloorSpanTimesFs(a, b) ==
    IF <<a, b>> \in SubtractionShort
    THEN (b - a) \div TicksPerSample - 1
    ELSE (b - a) \div TicksPerSample

\* C7: a returned trace has N = floor((t_last - t_first) * fs) rows, t_first
\* and t_last the first and last kept timestamps; a trace of one row is the
\* grid point t_first with the first kept acceleration.
OutputLength ==
    stimuli_pc = "returned" =>
        /\ Len(out.ret) = FloorSpanTimesFs(KeptFirst, KeptLast)
        /\ Len(out.ret) = 1 =>
              /\ RatEq(out.ret[1].t, Rat(KeptFirst, 1))
              /\ RatEq(out.ret[1].ax, Rat(Kept[1].a[1], 1))

\* C8: the timestamps of a returned trace are spaced exactly 1/fs apart:
\* t[i] = t[0] + i/fs for every row.
UniformGrid ==
    stimuli_pc = "returned" =>
        \A k \in 1..Len(out.ret) :
            RatEq(out.ret[k].t,
                  Rat(out.ret[1].t.num + (k - 1) * TicksPerSample * out.ret[1].t.den,
                      out.ret[1].t.den))

\* C9: stimuli fails whenever no label row has a timestamp at or before the
\* first grid timestamp.
RejectsMissingStartLabel ==
    (/\ stimuli_pc \in {"returned", "raised"}
     /\ Kept # <<>>
     /\ \A j \in 1..Len(truth) : truth[j].t > KeptFirst)
        => stimuli_pc = "raised"

\* C10: stimuli raises an error and returns no trace whenever no
\* accelerometer row is left by the trim or N <= 0.
RejectsDegenerate ==
    (/\ stimuli_pc \in {"returned", "raised"}
     /\ (Kept = <<>> \/ grid_len(KeptFirst, KeptLast) <= 0))
        => /\ stimuli_pc = "raised"
           /\ out.raised = "IndexError"
           /\ "ret" \notin DOMAIN out

\* N = 0 with label rows present
RejectsDegenerateWitness ==
    /\ stimuli_pc = "raised"
    /\ Kept # <<>>
    /\ grid_len(KeptFirst, KeptLast) = 0
    /\ truth # <<>>

---------------------------------------------------------------------------
(* Further properties of vanhees2015_modified                              *)

\* the rolling state of the classifier
rolling == <<accel_avgs, arm_angle_hist, arm_angle_change_hist,
             arm_angle_mean_d, ret>>

\* the loop is about to read a row that is not later than the row before it
OutOfOrderNext == i >= 1 /\ t_first + i * t_step <= stim[i].t

\* C11: a sample whose timestamp is not strictly greater than the timestamp
\* of the sample ingested before it is refused: the step that presents it
\* leaves accel_avgs, arm_angle_hist, arm_angle_change_hist,
\* arm_angle_mean_d and the events as they were.
RejectsOutOfOrder ==
    [][(pc = "loop" /\ pc' = "loop" /\ OutOfOrderNext)
           => UNCHANGED rolling]_vars

\* the angle estimates of the sample indices a..b, the newest first
AnglesOf(a, b) == [k \in 1..(b - a + 1) |-> dbg[b - k + 2].angle]

\* C12: the mean logged at a window boundary, the one at sample index 0
\* included, is the mean of the angle estimates of the samples ingested so
\* far that arm_angle_hist still holds, at most W of them; a slot no sample
\* has filled counts neither in the sum nor in the divisor.  Stated for the
\* streams in time order.
WindowMeanOfHeld ==
    \A k \in 1..Len(dbg) :
        (t_step > 0 /\ dbg[k].mean # None) =>
            dbg[k].mean[1] =
                np_mean(AnglesOf(IF k > W THEN k - W ELSE 0, k - 1))

\* C13: an ASLEEP event is emitted only once classification_hist_size
\* changes have been computed: the k-th event, whose change is the k-th one
\* computed, is ASLEEP only if k >= H and the last H changes are below the
\* threshold.  Stated for the streams in time order.
AsleepNeedsFullHistory ==
    \A k \in 1..NEvents :
        (t_step > 0 /\ StateOf(k) = 1) =>
            /\ k >= H
            /\ \A j \in (k - H + 1)..k : ~ Above(ChangeOf(j))

\* C14: a step that ingests a sample whose index is not a multiple of W
\* leaves arm_angle_mean_d, arm_angle_change_hist and the events unchanged
\* (of the rolling state only accel_avgs and arm_angle_hist, and the index,
\* change); the step that ingests sample index 0 leaves
\* arm_angle_change_hist and the events unchanged and sets arm_angle_mean_d,
\* unset before, to the mean just computed.
NonBoundaryFrame ==
    [][(pc = "loop" /\ i' = i + 1) =>
          /\ i % W # 0 =>
                UNCHANGED <<arm_angle_mean_d, arm_angle_change_hist, ret>>
          /\ i = 0 =>
                /\ UNCHANGED <<arm_angle_change_hist, ret>>
                /\ arm_angle_mean_d = None
                /\ arm_angle_mean_d' = <<np_mean(arm_angle_hist')>>]_vars

\* the sample after the first event is not a boundary: it has moved
\* accel_avgs and arm_angle_hist and nothing else
NonBoundaryWitness ==
    /\ Len(stim) = W + 2
    /\ NEvents = 1
    /\ dbg[W + 2].mean = None
    /\ arm_angle_mean_d = dbg[W + 1].mean
    /\ accel_avgs # dbg[W + 1].accel_avgs
    /\ arm_angle_hist[1] # dbg[W + 1].angle

\* the timestamps of the rows read are strictly increasing
InTimeOrder == \A k \in 1..(Len(stim) - 1) : stim[k].t < stim[k + 1].t

\* the timestamps of the events from the a-th on are strictly increasing
EventsOrderedFrom(a) == \A k \in a..(Len(ret) - 1) : ret[k].t < ret[k + 1].t

\* C15 as stated: for every stream in time order the timestamps of the
\* events, the seed included, are strictly increasing.
OrderedOutput == InTimeOrder => EventsOrderedFrom(1)

\* C15 amended: for every stream in time order the timestamps of the events
\* after the seed are strictly increasing, and so are those of all events,
\* the seed included, when the stream starts at t >= 0.
OrderedOutputFromZero ==
    InTimeOrder =>
        /\ EventsOrderedFrom(2)
        /\ (stim # <<>> /\ stim[1].t >= 0) => EventsOrderedFrom(1)

OrderedOutputWitness ==
    /\ pc = "done"
    /\ InTimeOrder
    /\ stim # <<>>
    /\ stim[1].t >= 0
    /\ NEvents >= 3

\* C16: the window completed at sample index k*W, k >= 1, holds the angle
\* estimates of the sample indices (k-1)*W+1 .. k*W and no other, and its
\* mean is their mean; the mean at index 0 is taken before any of them.  So
\* the windows of consecutive boundaries are contiguous and disjoint.
WindowsPartition ==
    /\ \A k \in 1..NEvents :
          dbg[k * W + 1].mean = <<np_mean(AnglesOf((k - 1) * W + 1, k * W))>>
    /\ (i >= W + 1 /\ (i - 1) % W = 0) =>
          arm_angle_hist = AnglesOf(i - W, i - 1)
    /\ \A k \in 1..Len(dbg) :
          (dbg[k].mean # None) <=> ((k - 1) % W = 0)

\* two full windows with different means, the newest one of angle estimates
\* that differ
WindowsPartitionWitness ==
    /\ i = 2 * W + 1
    /\ NEvents = 2
    /\ dbg[W + 1].mean # dbg[2 * W + 1].mean
    /\ arm_angle_hist[1] # arm_angle_hist[W]

---------------------------------------------------------------------------
(* Further properties of stimuli                                           *)

---------------------------------------------------------------------------
(* Properties of ema                                                       *)

\* the subtraction x - y of the call is exact
ExactDifference == float_round(ema_in.x - ema_in.y, 1) = ema_in.x - ema_in.y

====
